---- MODULE Spec2Model ----
(***************************************************************************)
(* Model of the terminal number-guessing game of src/main.py: the          *)
(* MainLoop navigation stack, the six State variants, the parent/child     *)
(* event handlers, the Controller menus and the two pickle snapshots.      *)
(* One step of the model is one call of MainLoop.run's body: either the    *)
(* draw() of the top state or its update(mainloop).                        *)
(***************************************************************************)
EXTENDS Integers, Sequences, FiniteSets, TLC

(* ------------------------------ bounds --------------------------------- *)

\* random.randint and the typed guesses are sampled at the Sample lowest and
\* the Sample highest values of their range.
Sample == 1

\* a run asks the Controller for at most MaxIntents intents
MaxIntents == 10

(* --------------------------- static tables ----------------------------- *)

Difficulty == {"EASY", "MEDIUM", "HARD"}

DIFFICULTY_SECRET_NUMBER == [d \in Difficulty |->
    CASE d = "EASY" -> 100 [] d = "MEDIUM" -> 1000 [] d = "HARD" -> 100000]

DIFFICULTY_WIN_SCORE == [d \in Difficulty |->
    CASE d = "EASY" -> 10 [] d = "MEDIUM" -> 100 [] d = "HARD" -> 1000]

\* absent file / absent handler / Python's None
NoFile == <<>>
NO_HANDLER == 0
None == "None"

(* ----------------------------- dataclasses ----------------------------- *)

GameSettingsDefault == [difficulty |-> "MEDIUM"]

GameReportDefault == [guess_count |-> 0, score |-> 0]

PlayerDefault == [guess |-> 0, action |-> None]

GameStateDefault ==
    [secret_number |-> 0, player |-> PlayerDefault,
     settings |-> GameSettingsDefault, report |-> GameReportDefault]

LobbyStateDefault == [score |-> 0]

compute_score_floor1(settings, report) ==
    DIFFICULTY_WIN_SCORE[settings.difficulty] \div (report.guess_count + 1)

\* DIFFICULTY_WIN_SCORE[d] // guess_count; Python raises ZeroDivisionError
\* on guess_count = 0, and // floors, which on these non-negative operands
\* is \div.
compute_score(settings, report) ==
    DIFFICULTY_WIN_SCORE[settings.difficulty] \div report.guess_count

(* ------------------------------- pickle -------------------------------- *)
\* pickle.dumps flattens the dataclass instance to its field values in
\* declaration order; pickle.loads rebuilds the instance from them.

GameDumpsNoReport(st) ==
    << st.secret_number, <<st.player.guess, st.player.action>>,
       <<st.settings.difficulty>>,
       <<GameReportDefault.guess_count, GameReportDefault.score>> >>

GameDumps(st) ==
    << st.secret_number, <<st.player.guess, st.player.action>>,
       <<st.settings.difficulty>>,
       <<st.report.guess_count, st.report.score>> >>

GameLoads(bytes) ==
    [secret_number |-> bytes[1],
     player |-> [guess |-> bytes[2][1], action |-> bytes[2][2]],
     settings |-> [difficulty |-> bytes[3][1]],
     report |-> [guess_count |-> bytes[4][1], score |-> bytes[4][2]]]

LobbyDumpsDefault(st) == << 0 >>

LobbyDumps(st) == << st.score >>

LobbyLoads(bytes) == [score |-> bytes[1]]

(* --------------------------- random / input ---------------------------- *)

\* random.randint(lo, hi): any integer of lo..hi; sampled at both ends
RandInt(lo, hi) ==
    {n \in (lo .. (lo + Sample - 1)) \cup ((hi - Sample + 1) .. hi) :
        lo <= n /\ n <= hi}

\* the integers typed at the "(?) " prompt of a Game: the sampled secrets
\* and one value beyond each end of the range
GuessInputs(d) ==
    RandInt(0, DIFFICULTY_SECRET_NUMBER[d])
        \cup {-1, DIFFICULTY_SECRET_NUMBER[d] + 1}

(* ------------------------------- states -------------------------------- *)

NewMainMenu == [type |-> "MainMenu", action |-> None]

NewLobby ==
    [type |-> "Lobby", state |-> LobbyStateDefault, action |-> None,
     game_settings |-> GameSettingsDefault,
     create_game |-> FALSE, enabled |-> TRUE]

\* handler: the position in the stack of the Lobby whose bound method the
\* child holds (a child sits above its creator, which therefore cannot be
\* popped while the child is on the stack)
NewNewGameSetup(h) ==
    [type |-> "NewGameSetup", settings |-> GameSettingsDefault,
     handler |-> h, action |-> None]

\* origin is a history field: "new" for Game.initialize, "loaded" for
\* Game.load_state
NewGame(st, h, o) ==
    [type |-> "Game", state |-> st, handler |-> h, origin |-> o]

NewVictory(settings, report) ==
    [type |-> "Victory", settings |-> settings, report |-> report,
     go_next |-> FALSE]

NewCredits == [type |-> "Credits", go_next |-> FALSE]

GameInitializeDefault(settings) ==
    {[GameStateDefault EXCEPT !.secret_number = n] :
        n \in RandInt(0, DIFFICULTY_SECRET_NUMBER[settings.difficulty])}

GameInitializeWide(settings) ==
    {[GameStateDefault EXCEPT !.settings = settings, !.secret_number = n] :
        n \in RandInt(0, DIFFICULTY_SECRET_NUMBER[settings.difficulty] + 1)}

\* Game.initialize: the GameStates it can leave in self._state
GameInitialize(settings) ==
    {[GameStateDefault EXCEPT !.settings = settings, !.secret_number = n] :
        n \in RandInt(0, DIFFICULTY_SECRET_NUMBER[settings.difficulty])}

(* ------------------------------ MainLoop ------------------------------- *)

pop_state(sts) == SubSeq(sts, 1, Len(sts) - 1)

push_state(sts, st) == Append(sts, st)

Top(sts) == sts[Len(sts)]

\* what a call of pop_state does to the list: list.pop() removes the last
\* state, and raises IndexError when the list is empty
PopEffect(sts) ==
    IF sts = <<>> THEN <<"raise", "IndexError">> ELSE <<"pop", Top(sts).type>>

\* an uncaught exception is among the effects
Raised(effs) == \E i \in 1..Len(effs) : effs[i][1] = "raise"

(* ----------------------------- Controller ------------------------------ *)

CreateLobbyActionsAlways(exists) ==
    (0 :> "LOAD_GAME") @@ (1 :> "NEW_GAME") @@ (99 :> "QUIT")

\* HumanController._create_lobby_actions; exists = SAVED_GAME_PATH.exists()
CreateLobbyActions(exists) ==
    IF exists
    THEN (0 :> "LOAD_GAME") @@ (1 :> "NEW_GAME") @@ (99 :> "QUIT")
    ELSE (0 :> "NEW_GAME") @@ (99 :> "QUIT")

\* HumanController._create_main_menu_actions;
\* exists = SAVED_LOBBY_PATH.exists()
CreateMainMenuActions(exists) ==
    IF exists
    THEN (0 :> "LOAD_LOBBY") @@ (1 :> "NEW_LOBBY") @@ (2 :> "CREDITS")
            @@ (99 :> "QUIT")
    ELSE (0 :> "NEW_LOBBY") @@ (2 :> "CREDITS") @@ (99 :> "QUIT")

Offered(menu) == {menu[k] : k \in DOMAIN menu}

(* --------------------------- event handlers ---------------------------- *)

OnGameEventAssign(lobby, report) ==
    [lobby EXCEPT !.state.score = report.score]

\* Lobby._on_game_event for a PlayerWin(report)
OnGameEvent(lobby, report) ==
    [lobby EXCEPT !.state.score = @ + report.score]

OnNewGameSetupEventNoStage(lobby, settings) ==
    [lobby EXCEPT !.game_settings = settings,
                  !.enabled = FALSE]

\* Lobby._on_new_game_setup_event for a NewGameSettingsValidated(settings)
OnNewGameSetupEvent(lobby, settings) ==
    [lobby EXCEPT !.game_settings = settings,
                  !.create_game = TRUE,
                  !.enabled = FALSE]

CallGameHandlerNone(sts, h, report) == sts

\* self._event_handler(event) of a child whose handler is h
CallGameHandler(sts, h, report) ==
    IF h = NO_HANDLER THEN sts
    ELSE [sts EXCEPT ![h] = OnGameEvent(sts[h], report)]

CallSetupHandlerPops(sts, h, settings) ==
    IF h = NO_HANDLER THEN sts
    ELSE pop_state([sts EXCEPT ![h] = OnNewGameSetupEvent(sts[h], settings)])

CallSetupHandler(sts, h, settings) ==
    IF h = NO_HANDLER THEN sts
    ELSE [sts EXCEPT ![h] = OnNewGameSetupEvent(sts[h], settings)]

(* -------------------------------- Game -------------------------------- *)
\* The operators below take the stack with the Game on top, the
\* Controller's _event_logs and the game snapshot file, and return what the
\* method leaves: the stack, the logs, the file, the Game object itself
\* (self, which outlives its pop until update returns) and the ordered list
\* of the effects it performed.

CheckGuessPushFirst(sts, logs) ==
    LET self == Top(sts)
        guess == self.state.player.guess
        secret == self.state.secret_number
        logs1 == IF guess > secret THEN Append(logs, "GuessTooHigh") ELSE logs
        logs2 == IF guess < secret THEN Append(logs1, "GuessTooLow") ELSE logs1
        eff2 == (IF guess > secret THEN << <<"notice", "GuessTooHigh">> >> ELSE <<>>)
                \o (IF guess < secret THEN << <<"notice", "GuessTooLow">> >> ELSE <<>>)
    IN  IF guess = secret /\ self.state.report.guess_count = 0
        THEN [states |-> sts, eventLogs |-> logs2, self |-> self,
              effects |-> eff2 \o << <<"raise", "ZeroDivisionError">> >>]
        ELSE IF guess = secret
        THEN LET report == [self.state.report EXCEPT
                               !.score = compute_score(self.state.settings, self.state.report)]
                 won == [self EXCEPT !.state.report = report]
                 s1 == CallGameHandler([sts EXCEPT ![Len(sts)] = won], self.handler, report)
                 s2 == push_state(s1, NewVictory(won.state.settings, report))
                 s3 == pop_state(s2)
             IN  [states |-> s3, eventLogs |-> logs2, self |-> won,
                  effects |-> eff2 \o << <<"event", "PlayerWin">>,
                                         <<"push", Top(s2).type>>,
                                         PopEffect(s2) >>]
        ELSE [states |-> sts, eventLogs |-> logs2, self |-> self, effects |-> eff2]

CheckGuessInclusive(sts, logs) ==
    LET self == Top(sts)
        guess == self.state.player.guess
        secret == self.state.secret_number
        logs1 == IF guess >= secret THEN Append(logs, "GuessTooHigh") ELSE logs
        logs2 == IF guess < secret THEN Append(logs1, "GuessTooLow") ELSE logs1
        eff2 == (IF guess >= secret THEN << <<"notice", "GuessTooHigh">> >> ELSE <<>>)
                \o (IF guess < secret THEN << <<"notice", "GuessTooLow">> >> ELSE <<>>)
    IN  IF guess = secret /\ self.state.report.guess_count = 0
        THEN [states |-> sts, eventLogs |-> logs2, self |-> self,
              effects |-> eff2 \o << <<"raise", "ZeroDivisionError">> >>]
        ELSE IF guess = secret
        THEN LET report == [self.state.report EXCEPT
                               !.score = compute_score(self.state.settings, self.state.report)]
                 won == [self EXCEPT !.state.report = report]
                 s1 == CallGameHandler([sts EXCEPT ![Len(sts)] = won], self.handler, report)
                 s2 == pop_state(s1)
                 s3 == push_state(s2, NewVictory(won.state.settings, report))
             IN  [states |-> s3, eventLogs |-> logs2, self |-> won,
                  effects |-> eff2 \o << <<"event", "PlayerWin">>,
                                         PopEffect(s1),
                                         <<"push", Top(s3).type>> >>]
        ELSE [states |-> sts, eventLogs |-> logs2, self |-> self, effects |-> eff2]

CheckGuessNoPop(sts, logs) ==
    LET self == Top(sts)
        guess == self.state.player.guess
        secret == self.state.secret_number
        logs1 == IF guess > secret THEN Append(logs, "GuessTooHigh") ELSE logs
        logs2 == IF guess < secret THEN Append(logs1, "GuessTooLow") ELSE logs1
        eff2 == (IF guess > secret THEN << <<"notice", "GuessTooHigh">> >> ELSE <<>>)
                \o (IF guess < secret THEN << <<"notice", "GuessTooLow">> >> ELSE <<>>)
    IN  IF guess = secret /\ self.state.report.guess_count = 0
        THEN [states |-> sts, eventLogs |-> logs2, self |-> self,
              effects |-> eff2 \o << <<"raise", "ZeroDivisionError">> >>]
        ELSE IF guess = secret
        THEN LET report == [self.state.report EXCEPT
                               !.score = compute_score(self.state.settings, self.state.report)]
                 won == [self EXCEPT !.state.report = report]
                 s1 == CallGameHandler([sts EXCEPT ![Len(sts)] = won], self.handler, report)
                 s2 == s1
                 s3 == push_state(s2, NewVictory(won.state.settings, report))
             IN  [states |-> s3, eventLogs |-> logs2, self |-> won,
                  effects |-> eff2 \o << <<"event", "PlayerWin">>,
                                         <<"push", Top(s3).type>> >>]
        ELSE [states |-> sts, eventLogs |-> logs2, self |-> self, effects |-> eff2]

\* Game._check_guess: three independent tests, in source order; on a win
\* with guess_count = 0 compute_score raises ZeroDivisionError before any
\* assignment, handler call, pop or push
CheckGuess(sts, logs) ==
    LET self == Top(sts)
        guess == self.state.player.guess
        secret == self.state.secret_number
        logs1 == IF guess > secret THEN Append(logs, "GuessTooHigh") ELSE logs
        logs2 == IF guess < secret THEN Append(logs1, "GuessTooLow") ELSE logs1
        eff2 == (IF guess > secret THEN << <<"notice", "GuessTooHigh">> >> ELSE <<>>)
                \o (IF guess < secret THEN << <<"notice", "GuessTooLow">> >> ELSE <<>>)
    IN  IF guess = secret /\ self.state.report.guess_count = 0
        THEN [states |-> sts, eventLogs |-> logs2, self |-> self,
              effects |-> eff2 \o << <<"raise", "ZeroDivisionError">> >>]
        ELSE IF guess = secret
        THEN LET report == [self.state.report EXCEPT
                               !.score = compute_score(self.state.settings, self.state.report)]
                 won == [self EXCEPT !.state.report = report]
                 s1 == CallGameHandler([sts EXCEPT ![Len(sts)] = won], self.handler, report)
                 s2 == pop_state(s1)
                 s3 == push_state(s2, NewVictory(won.state.settings, report))
             IN  [states |-> s3, eventLogs |-> logs2, self |-> won,
                  effects |-> eff2 \o << <<"event", "PlayerWin">>,
                                         PopEffect(s1),
                                         <<"push", Top(s3).type>> >>]
        ELSE [states |-> sts, eventLogs |-> logs2, self |-> self, effects |-> eff2]

GameHandleActionPopOnMiss(sts, logs, file) ==
    LET self0 == Top(sts)
        r1 == IF self0.state.player.action = "GUESS"
              THEN CheckGuess([sts EXCEPT ![Len(sts)].state.report.guess_count = @ + 1], logs)
              ELSE [states |-> sts, eventLogs |-> logs, self |-> self0, effects |-> <<>>]
    IN  IF r1.self.state.player.action = "QUIT"
           \/ (r1.self.state.player.action = "GUESS" /\ Len(r1.effects) = 1)
        THEN [states |-> pop_state(r1.states), eventLogs |-> r1.eventLogs,
              self |-> r1.self, gameFile |-> file,
              effects |-> r1.effects \o << PopEffect(r1.states) >>]
        ELSE [states |-> r1.states, eventLogs |-> r1.eventLogs, self |-> r1.self,
              gameFile |-> file, effects |-> r1.effects]

GameHandleActionNoCount(sts, logs, file) ==
    LET self0 == Top(sts)
        r1 == IF self0.state.player.action = "GUESS"
              THEN CheckGuess(sts, logs)
              ELSE [states |-> sts, eventLogs |-> logs, self |-> self0, effects |-> <<>>]
    IN  IF r1.self.state.player.action = "QUIT"
        THEN [states |-> pop_state(r1.states), eventLogs |-> r1.eventLogs,
              self |-> r1.self, gameFile |-> GameDumps(r1.self.state),
              effects |-> r1.effects \o << <<"save", "Game">>,
                                           PopEffect(r1.states) >>]
        ELSE [states |-> r1.states, eventLogs |-> r1.eventLogs, self |-> r1.self,
              gameFile |-> file, effects |-> r1.effects]

\* Game._handle_action, with Game.save_state inlined (an exception raised
\* by _check_guess leaves through a GUESS action, so the QUIT test that it
\* skips is false anyway)
GameHandleAction(sts, logs, file) ==
    LET self0 == Top(sts)
        r1 == IF self0.state.player.action = "GUESS"
              THEN CheckGuess([sts EXCEPT ![Len(sts)].state.report.guess_count = @ + 1], logs)
              ELSE [states |-> sts, eventLogs |-> logs, self |-> self0, effects |-> <<>>]
    IN  IF r1.self.state.player.action = "QUIT"
        THEN [states |-> pop_state(r1.states), eventLogs |-> r1.eventLogs,
              self |-> r1.self, gameFile |-> GameDumps(r1.self.state),
              effects |-> r1.effects \o << <<"save", "Game">>,
                                           PopEffect(r1.states) >>]
        ELSE [states |-> r1.states, eventLogs |-> r1.eventLogs, self |-> r1.self,
              gameFile |-> file, effects |-> r1.effects]

\* Game.update, first statement: self._action = None creates (or rebinds) an
\* attribute _action of the Game; the pending intent lives in
\* self._state.player.action, which the statement does not touch
GameUpdateReset(game) ==
    [f \in DOMAIN game \cup {"action"} |->
        IF f = "action" THEN None ELSE game[f]]

(* ---------------------------- NewGameSetup ----------------------------- *)

NewGameSetupHandleActionTwice(sts) ==
    LET self == Top(sts)
    IN  IF self.action = "VALIDATE"
        THEN LET s1 == CallSetupHandler(sts, self.handler, self.settings)
                 s2 == CallSetupHandler(s1, self.handler, self.settings)
             IN  [states |-> pop_state(s2),
                  effects |-> << <<"event", "NewGameSettingsValidated">>,
                                 <<"event", "NewGameSettingsValidated">>,
                                 PopEffect(s2) >>]
        ELSE [states |-> sts, effects |-> <<>>]

\* NewGameSetup._handle_action
NewGameSetupHandleAction(sts) ==
    LET self == Top(sts)
    IN  IF self.action = "VALIDATE"
        THEN LET s1 == CallSetupHandler(sts, self.handler, self.settings)
             IN  [states |-> pop_state(s1),
                  effects |-> << <<"event", "NewGameSettingsValidated">>,
                                 PopEffect(s1) >>]
        ELSE [states |-> sts, effects |-> <<>>]

(* ------------------------------ variables ------------------------------ *)

VARIABLES
    states,           \* MainLoop._states
    pc,               \* MainLoop.run: "draw", "update", "done" (loop left),
                      \* "error" (uncaught exception)
    lobbyFile,        \* contents of SAVED_LOBBY_PATH, NoFile when absent
    gameFile,         \* contents of SAVED_GAME_PATH, NoFile when absent
    mainMenuActions,  \* HumanController._main_menu_actions
    lobbyActions,     \* HumanController._lobby_actions
    eventLogs,        \* HumanController._event_logs
    effects,          \* history: ordered effects of the latest update
    tick,             \* history: who ran the latest update, on which intent
    scenario,         \* history: progress along the end-to-end scenario
    startScore,       \* history: score of the current Lobby when pushed
    winSum,           \* history: sum of the scores of the wins reported to it
    lastQuit,         \* history: GameState of the latest Game that quit
    lastLobbyQuit,    \* history: LobbyState of the latest Lobby that quit
    guessesInRound,   \* history: Guess intents handled in the round of the
                      \* Game on the stack, before and after any save
    guessesInFile,    \* history: the same count for the round in gameFile
    intents           \* number of intents the Controller has supplied

vars == << states, pc, lobbyFile, gameFile, mainMenuActions, lobbyActions,
           eventLogs, effects, tick, scenario, startScore, winSum, lastQuit,
           lastLobbyQuit,
           guessesInRound, guessesInFile, intents >>

NoTick == [by |-> "none", intent |-> "none", guess |-> 0]

NoQuit == [secret_number |-> -1]

NoLobbyQuit == [score |-> -1]

\* snapshots left by an earlier run of the program
PriorLobbyFiles == { LobbyDumps([score |-> 25]) }

PriorGameFiles ==
    { GameDumps([secret_number |-> 1000,
                 player |-> [guess |-> 0, action |-> "QUIT"],
                 settings |-> [difficulty |-> "MEDIUM"],
                 report |-> [guess_count |-> 3, score |-> 0]]) }

\* main(): MainLoop.from_state(MainMenu(HumanController())), in a directory
\* holding no snapshot or the snapshots of an earlier run
Init ==
    /\ states = << NewMainMenu >>
    /\ pc = "draw"
    /\ \/ lobbyFile = NoFile /\ gameFile = NoFile /\ guessesInFile = 0
       \/ /\ lobbyFile \in PriorLobbyFiles
          /\ gameFile \in PriorGameFiles
          /\ guessesInFile = 3
    /\ guessesInRound = 0
    /\ mainMenuActions = <<>>
    /\ lobbyActions = <<>>
    /\ eventLogs = <<>>
    /\ effects = <<>>
    /\ tick = NoTick
    /\ scenario = 0
    /\ startScore = 0
    /\ winSum = 0
    /\ lastQuit = NoQuit
    /\ lastLobbyQuit = NoLobbyQuit
    /\ intents = 0

\* the end-to-end scenario NEW_LOBBY, NEW_GAME, EASY, Guess(secret), Enter:
\* the number of its intents consumed so far, 0 once the run leaves it
ScenarioStep(sc, by, intent, hit) ==
    CASE by = "MainMenu" /\ intent = "NEW_LOBBY" -> 1
      [] sc = 1 /\ by = "Lobby" /\ intent = "NEW_GAME" -> 2
      [] sc = 2 /\ by = "NewGameSetup" /\ intent = "EASY" -> 3
      [] sc = 3 /\ by = "Game" /\ intent = "GUESS" /\ hit -> 4
      [] sc = 4 /\ by = "Victory" /\ intent = "ENTER" -> 5
      [] OTHER -> 0

AfterUpdateEarly(sts) == IF Len(sts) <= 1 THEN "done" ELSE "draw"

\* MainLoop.run: the while test after update returns
AfterUpdate(sts) == IF sts = <<>> THEN "done" ELSE "draw"

(* -------------------------------- draw --------------------------------- *)

DrawMainMenu ==
    /\ pc = "draw" /\ Top(states).type = "MainMenu"
    /\ mainMenuActions' = CreateMainMenuActions(lobbyFile # NoFile)
    /\ pc' = "update"
    /\ UNCHANGED << states, lobbyFile, gameFile, lobbyActions, eventLogs,
                    effects, tick, scenario, startScore, winSum, lastQuit,
                    lastLobbyQuit,
                    intents,
                    guessesInRound, guessesInFile >>

\* Lobby.draw returns before the Controller is reached when not _enabled
DrawLobby ==
    /\ pc = "draw" /\ Top(states).type = "Lobby"
    /\ lobbyActions' = IF Top(states).enabled
                       THEN CreateLobbyActions(gameFile # NoFile)
                       ELSE lobbyActions
    /\ pc' = "update"
    /\ UNCHANGED << states, lobbyFile, gameFile, mainMenuActions, eventLogs,
                    effects, tick, scenario, startScore, winSum, lastQuit,
                    lastLobbyQuit,
                    intents,
                    guessesInRound, guessesInFile >>

\* draw_Game prints and empties _event_logs
DrawGame ==
    /\ pc = "draw" /\ Top(states).type = "Game"
    /\ eventLogs' = <<>>
    /\ pc' = "update"
    /\ UNCHANGED << states, lobbyFile, gameFile, mainMenuActions,
                    lobbyActions, effects, tick, scenario, startScore,
                    winSum, lastQuit, lastLobbyQuit, intents,
                    guessesInRound, guessesInFile >>

DrawNewGameSetup ==
    /\ pc = "draw" /\ Top(states).type = "NewGameSetup"
    /\ pc' = "update"
    /\ UNCHANGED << states, lobbyFile, gameFile, mainMenuActions,
                    lobbyActions, eventLogs, effects, tick, scenario,
                    startScore, winSum, lastQuit, lastLobbyQuit, intents,
                    guessesInRound, guessesInFile >>

DrawVictory ==
    /\ pc = "draw" /\ Top(states).type = "Victory"
    /\ pc' = "update"
    /\ UNCHANGED << states, lobbyFile, gameFile, mainMenuActions,
                    lobbyActions, eventLogs, effects, tick, scenario,
                    startScore, winSum, lastQuit, lastLobbyQuit, intents,
                    guessesInRound, guessesInFile >>

DrawCredits ==
    /\ pc = "draw" /\ Top(states).type = "Credits"
    /\ pc' = "update"
    /\ UNCHANGED << states, lobbyFile, gameFile, mainMenuActions,
                    lobbyActions, eventLogs, effects, tick, scenario,
                    startScore, winSum, lastQuit, lastLobbyQuit, intents,
                    guessesInRound, guessesInFile >>

(* ------------------------------ MainMenu ------------------------------- *)

MainMenuHandleActionsPopTwice(sts, file) ==
    LET self == Top(sts)
    IN  CASE self.action = "NEW_LOBBY" ->
                [states |-> push_state(sts, [NewLobby EXCEPT !.state = [LobbyStateDefault EXCEPT !.score = 0]]),
                 effects |-> << <<"push", "Lobby">> >>, error |-> FALSE]
          [] self.action = "LOAD_LOBBY" ->
                IF file = NoFile
                THEN [states |-> sts, effects |-> <<>>, error |-> TRUE]
                ELSE [states |-> push_state(sts, [NewLobby EXCEPT !.state = LobbyLoads(file)]),
                      effects |-> << <<"push", "Lobby">> >>, error |-> FALSE]
          [] self.action = "CREDITS" ->
                [states |-> push_state(sts, NewCredits),
                 effects |-> << <<"push", "Credits">> >>, error |-> FALSE]
          [] self.action = "QUIT" ->
                [states |-> pop_state(pop_state(sts)),
                 effects |-> << PopEffect(sts), PopEffect(pop_state(sts)) >>,
                 error |-> FALSE]
          [] OTHER -> [states |-> sts, effects |-> <<>>, error |-> FALSE]

\* MainMenu._handle_actions; Lobby.load_state raises FileNotFoundError when
\* the snapshot is absent
MainMenuHandleActions(sts, file) ==
    LET self == Top(sts)
    IN  CASE self.action = "NEW_LOBBY" ->
                [states |-> push_state(sts, [NewLobby EXCEPT !.state = [LobbyStateDefault EXCEPT !.score = 0]]),
                 effects |-> << <<"push", "Lobby">> >>, error |-> FALSE]
          [] self.action = "LOAD_LOBBY" ->
                IF file = NoFile
                THEN [states |-> sts, effects |-> <<>>, error |-> TRUE]
                ELSE [states |-> push_state(sts, [NewLobby EXCEPT !.state = LobbyLoads(file)]),
                      effects |-> << <<"push", "Lobby">> >>, error |-> FALSE]
          [] self.action = "CREDITS" ->
                [states |-> push_state(sts, NewCredits),
                 effects |-> << <<"push", "Credits">> >>, error |-> FALSE]
          [] self.action = "QUIT" ->
                [states |-> pop_state(sts),
                 effects |-> << PopEffect(sts) >>, error |-> FALSE]
          [] OTHER -> [states |-> sts, effects |-> <<>>, error |-> FALSE]

\* MainMenu.update; update_MainMenu selects one key of _main_menu_actions
UpdateMainMenu ==
    /\ pc = "update" /\ Top(states).type = "MainMenu"
    /\ intents < MaxIntents
    /\ intents' = intents + 1
    /\ \E k \in DOMAIN mainMenuActions :
        LET action == mainMenuActions[k]
            r == MainMenuHandleActions(
                    [states EXCEPT ![Len(states)].action = action], lobbyFile)
        IN  /\ states' = r.states
            /\ pc' = IF r.error \/ Raised(r.effects) THEN "error" ELSE AfterUpdate(r.states)
            /\ effects' = r.effects
            /\ tick' = [by |-> "MainMenu", intent |-> action, guess |-> 0]
            /\ scenario' = ScenarioStep(scenario, "MainMenu", action, FALSE)
            /\ startScore' = CASE action = "NEW_LOBBY" -> 0
                               [] action = "LOAD_LOBBY" /\ ~r.error -> lobbyFile[1]
                               [] OTHER -> startScore
            /\ winSum' = IF action \in {"NEW_LOBBY", "LOAD_LOBBY"} THEN 0 ELSE winSum
    /\ UNCHANGED << lobbyFile, gameFile, mainMenuActions, lobbyActions,
                    eventLogs, lastQuit, lastLobbyQuit, guessesInRound,
                    guessesInFile >>

(* -------------------------------- Lobby -------------------------------- *)

\* Lobby._handle_actions, with Lobby.save_state inlined; Game.load_state
\* raises FileNotFoundError when the snapshot is absent
LobbyHandleActions(sts, lfile, gfile) ==
    LET self == Top(sts)
        h == Len(sts)
    IN  CASE self.action = "NEW_GAME" ->
                [states |-> push_state(sts, NewNewGameSetup(h)), lobbyFile |-> lfile,
                 effects |-> << <<"push", "NewGameSetup">> >>, error |-> FALSE]
          [] self.action = "LOAD_GAME" ->
                IF gfile = NoFile
                THEN [states |-> sts, lobbyFile |-> lfile, effects |-> <<>>, error |-> TRUE]
                ELSE [states |-> push_state(sts, NewGame(GameLoads(gfile), h, "loaded")),
                      lobbyFile |-> lfile,
                      effects |-> << <<"push", "Game">> >>, error |-> FALSE]
          [] self.action = "QUIT" ->
                [states |-> pop_state(sts), lobbyFile |-> LobbyDumps(self.state),
                 effects |-> << <<"save", "Lobby">>, PopEffect(sts) >>,
                 error |-> FALSE]
          [] OTHER -> [states |-> sts, lobbyFile |-> lfile, effects |-> <<>>, error |-> FALSE]

\* Lobby.update, first branch: the staged Game is created and pushed, the
\* Controller is not asked
UpdateLobbyCreateGame ==
    /\ pc = "update" /\ Top(states).type = "Lobby"
    /\ Top(states).create_game
    /\ \E st \in GameInitialize(Top(states).game_settings) :
        states' = [push_state(states, NewGame(st, Len(states), "new"))
                      EXCEPT ![Len(states)].enabled = TRUE,
                             ![Len(states)].create_game = FALSE]
    /\ pc' = "draw"
    /\ effects' = << <<"push", "Game">> >>
    /\ tick' = [by |-> "Lobby", intent |-> "none", guess |-> 0]
    /\ guessesInRound' = 0
    /\ UNCHANGED << lobbyFile, gameFile, mainMenuActions, lobbyActions,
                    eventLogs, scenario, startScore, winSum, lastQuit,
                    lastLobbyQuit,
                    intents, guessesInFile >>

\* Lobby.update, the rest: return when not _enabled, else update_Lobby
\* selects one key of _lobby_actions and _handle_actions runs
UpdateLobbyInput ==
    /\ pc = "update" /\ Top(states).type = "Lobby"
    /\ ~Top(states).create_game
    /\ IF ~Top(states).enabled
       THEN /\ pc' = "draw"
            /\ effects' = <<>>
            /\ tick' = [by |-> "Lobby", intent |-> "none", guess |-> 0]
            /\ UNCHANGED << states, lobbyFile, scenario, intents,
                            guessesInRound, lastLobbyQuit >>
       ELSE \E k \in DOMAIN lobbyActions :
            LET action == lobbyActions[k]
                r == LobbyHandleActions(
                        [states EXCEPT ![Len(states)].action = action],
                        lobbyFile, gameFile)
            IN  /\ intents < MaxIntents
                /\ intents' = intents + 1
                /\ states' = r.states
                /\ lobbyFile' = r.lobbyFile
                /\ pc' = IF r.error \/ Raised(r.effects) THEN "error" ELSE AfterUpdate(r.states)
                /\ effects' = r.effects
                /\ tick' = [by |-> "Lobby", intent |-> action, guess |-> 0]
                /\ scenario' = ScenarioStep(scenario, "Lobby", action, FALSE)
                /\ guessesInRound' = IF action = "LOAD_GAME" /\ ~r.error
                                     THEN guessesInFile ELSE guessesInRound
                /\ lastLobbyQuit' = IF action = "QUIT"
                                    THEN Top(states).state ELSE lastLobbyQuit
    /\ UNCHANGED << gameFile, mainMenuActions, lobbyActions, eventLogs,
                    startScore, winSum, lastQuit, guessesInFile >>

(* ---------------------------- NewGameSetup ----------------------------- *)

\* NewGameSetup.update; update_NewGameSetup stores the selected difficulty
\* in the state's settings and sets the VALIDATE action
UpdateNewGameSetup ==
    /\ pc = "update" /\ Top(states).type = "NewGameSetup"
    /\ intents < MaxIntents
    /\ intents' = intents + 1
    /\ \E d \in Difficulty :
        LET r == NewGameSetupHandleAction(
                    [states EXCEPT ![Len(states)].settings.difficulty = d,
                                   ![Len(states)].action = "VALIDATE"])
        IN  /\ states' = r.states
            /\ pc' = IF Raised(r.effects) THEN "error" ELSE AfterUpdate(r.states)
            /\ effects' = r.effects
            /\ tick' = [by |-> "NewGameSetup", intent |-> d, guess |-> 0]
            /\ scenario' = ScenarioStep(scenario, "NewGameSetup", d, FALSE)
    /\ UNCHANGED << lobbyFile, gameFile, mainMenuActions, lobbyActions,
                    eventLogs, startScore, winSum, lastQuit, lastLobbyQuit,
                    guessesInRound, guessesInFile >>

(* -------------------------------- Game --------------------------------- *)

\* the intents a Controller can apply to a Game: update_Game sets GUESS and
\* the typed integer; a Controller offering it sets QUIT
GameIntents(game) ==
    {[action |-> "GUESS", guess |-> v] :
        v \in GuessInputs(game.state.settings.difficulty)}
    \cup {[action |-> "QUIT", guess |-> game.state.player.guess]}

\* Game.update: GameUpdateReset, then the Controller overwrites the player's
\* intent, then _handle_action
UpdateGame ==
    /\ pc = "update" /\ Top(states).type = "Game"
    /\ intents < MaxIntents
    /\ intents' = intents + 1
    /\ \E in \in GameIntents(Top(states)) :
        LET r == GameHandleAction(
                    [states EXCEPT ![Len(states)] =
                        [GameUpdateReset(Top(states)) EXCEPT !.state.player = in]],
                    eventLogs, gameFile)
            won == <<"event", "PlayerWin">> \in {r.effects[i] : i \in 1..Len(r.effects)}
        IN  /\ states' = r.states
            /\ eventLogs' = r.eventLogs
            /\ gameFile' = r.gameFile
            /\ pc' = IF Raised(r.effects) THEN "error" ELSE AfterUpdate(r.states)
            /\ effects' = r.effects
            /\ tick' = [by |-> "Game", intent |-> in.action, guess |-> in.guess]
            /\ scenario' = ScenarioStep(scenario, "Game", in.action,
                                        in.guess = Top(states).state.secret_number)
            /\ winSum' = IF won /\ Top(states).handler # NO_HANDLER
                         THEN winSum + r.self.state.report.score ELSE winSum
            /\ lastQuit' = IF in.action = "QUIT" THEN r.self.state ELSE lastQuit
            /\ guessesInRound' = IF in.action = "GUESS"
                                 THEN guessesInRound + 1 ELSE guessesInRound
            /\ guessesInFile' = IF in.action = "QUIT"
                                THEN guessesInRound ELSE guessesInFile
    /\ UNCHANGED << lobbyFile, mainMenuActions, lobbyActions, startScore,
                    lastLobbyQuit >>

(* --------------------------- Victory, Credits -------------------------- *)

GoNextUpdateLate(sts) ==
    IF Top(sts).go_next
    THEN [states |-> pop_state(sts), effects |-> << PopEffect(sts) >>]
    ELSE [states |-> [sts EXCEPT ![Len(sts)].go_next = TRUE], effects |-> <<>>]

\* update_Victory / update_Credits call go_next(); the state then pops if
\* _go_next
GoNextUpdate(sts) ==
    LET s0 == [sts EXCEPT ![Len(sts)].go_next = TRUE]
    IN  IF Top(s0).go_next
        THEN [states |-> pop_state(s0), effects |-> << PopEffect(s0) >>]
        ELSE [states |-> s0, effects |-> <<>>]

UpdateVictory ==
    /\ pc = "update" /\ Top(states).type = "Victory"
    /\ intents < MaxIntents
    /\ intents' = intents + 1
    /\ LET r == GoNextUpdate(states)
       IN  /\ states' = r.states
           /\ pc' = IF Raised(r.effects) THEN "error" ELSE AfterUpdate(r.states)
           /\ effects' = r.effects
    /\ tick' = [by |-> "Victory", intent |-> "ENTER", guess |-> 0]
    /\ scenario' = ScenarioStep(scenario, "Victory", "ENTER", FALSE)
    /\ UNCHANGED << lobbyFile, gameFile, mainMenuActions, lobbyActions,
                    eventLogs, startScore, winSum, lastQuit, lastLobbyQuit,
                    guessesInRound, guessesInFile >>

UpdateCredits ==
    /\ pc = "update" /\ Top(states).type = "Credits"
    /\ intents < MaxIntents
    /\ intents' = intents + 1
    /\ LET r == GoNextUpdate(states)
       IN  /\ states' = r.states
           /\ pc' = IF Raised(r.effects) THEN "error" ELSE AfterUpdate(r.states)
           /\ effects' = r.effects
    /\ tick' = [by |-> "Credits", intent |-> "ENTER", guess |-> 0]
    /\ scenario' = ScenarioStep(scenario, "Credits", "ENTER", FALSE)
    /\ UNCHANGED << lobbyFile, gameFile, mainMenuActions, lobbyActions,
                    eventLogs, startScore, winSum, lastQuit, lastLobbyQuit,
                    guessesInRound, guessesInFile >>

(* ----------------------------- specification --------------------------- *)

Next ==
    \/ DrawMainMenu
    \/ DrawLobby
    \/ DrawGame
    \/ DrawNewGameSetup
    \/ DrawVictory
    \/ DrawCredits
    \/ UpdateMainMenu
    \/ UpdateLobbyCreateGame
    \/ UpdateLobbyInput
    \/ UpdateNewGameSetup
    \/ UpdateGame
    \/ UpdateVictory
    \/ UpdateCredits

Spec == Init /\ [][Next]_vars

TypeOK ==
    /\ pc \in {"draw", "update", "done", "error"}
    /\ pc \in {"draw", "update"} => states # <<>>

(* ------------------------- auxiliary definitions ----------------------- *)

Types(sts) == [i \in 1..Len(sts) |-> sts[i].type]

Running == pc \in {"draw", "update"}

\* the pushes and pops among the effects of an update, in order
StackOps(effs) == SelectSeq(effs, LAMBDA e : e[1] \in {"push", "pop"})

\* the too-high / too-low notices and PlayerWin events among them, in order
Outcomes(effs) ==
    SelectSeq(effs, LAMBDA e : e \in { <<"notice", "GuessTooHigh">>,
                                       <<"notice", "GuessTooLow">>,
                                       <<"event", "PlayerWin">> })

\* the step taken is the update of a Game handling a Guess intent
GuessStep ==
    /\ pc = "update" /\ Top(states).type = "Game"
    /\ tick'.by = "Game" /\ tick'.intent = "GUESS"

WinStep == GuessStep /\ tick'.guess = Top(states).state.secret_number

MissStep == GuessStep /\ tick'.guess # Top(states).state.secret_number

(* --------------------------------- C1 ---------------------------------- *)

\* C1: from the stack [MainMenu], the intents NEW_LOBBY, NEW_GAME, EASY,
\* Guess(secret), Enter pass through Lobby with score 0, NewGameSetup, a
\* Game, a Victory whose report is {guess_count: 1, score: 10}, and end with
\* the stack [MainMenu, Lobby] where the Lobby's score is 10.
C1_EndToEnd ==
    /\ scenario = 1 =>
          /\ Running
          /\ Types(states) = <<"MainMenu", "Lobby">>
          /\ states[2].state.score = 0
    /\ scenario = 2 =>
          /\ Running
          /\ Types(states) = <<"MainMenu", "Lobby", "NewGameSetup">>
    /\ scenario = 3 =>
          /\ Running
          /\ \/ Types(states) = <<"MainMenu", "Lobby">> /\ states[2].create_game
             \/ /\ Types(states) = <<"MainMenu", "Lobby", "Game">>
                /\ states[3].state.settings.difficulty = "EASY"
                /\ states[3].state.report = [guess_count |-> 0, score |-> 0]
          /\ states[2].state.score = 0
    /\ scenario = 4 =>
          /\ Running
          /\ Types(states) = <<"MainMenu", "Lobby", "Victory">>
          /\ states[3].report = [guess_count |-> 1, score |-> 10]
    /\ scenario = 5 =>
          /\ Running
          /\ Types(states) = <<"MainMenu", "Lobby">>
          /\ states[2].state.score = 10

C1_Witness ==
    /\ Running
    /\ scenario = 5
    /\ tick.by = "Victory"
    /\ Types(states) = <<"MainMenu", "Lobby">>

(* --------------------------------- C2 ---------------------------------- *)

HasLobby(sts) == \E i \in 1..Len(sts) : sts[i].type = "Lobby"

LobbyOf(sts) == sts[CHOOSE i \in 1..Len(sts) : sts[i].type = "Lobby"]

LobbyScoreIsSum ==
    \A i \in 1..Len(states) :
        states[i].type = "Lobby" => states[i].state.score = startScore + winSum

LobbyScoreChangesOnWinOnly ==
    (HasLobby(states) /\ HasLobby(states')
        /\ LobbyOf(states').state.score # LobbyOf(states).state.score)
    => WinStep

\* C2: a Lobby's score is its starting score (0 when new, the persisted
\* score when loaded) plus the sum of report.score over the wins of the
\* Games it pushed, and it changes only in a tick in which such a Game
\* handles a winning guess.
C2_LobbyScore == [](LobbyScoreIsSum) /\ [][LobbyScoreChangesOnWinOnly]_vars

\* two rounds from a new Lobby, the first one a loaded Game: Medium won on
\* the 4th guess (25), then Easy won on the 1st (10)
C2_Witness ==
    /\ HasLobby(states)
    /\ startScore = 0
    /\ winSum = 35
    /\ LobbyOf(states).state.score = 35

(* --------------------------------- C3 ---------------------------------- *)

\* C3 as stated: a winning guess pushes one Victory and then pops one Game,
\* the depth is unchanged, the Victory is on top and every state below the
\* Game is unchanged.
C3_Original ==
    [][WinStep =>
        /\ StackOps(effects') = << <<"push", "Victory">>, <<"pop", "Game">> >>
        /\ Len(states') = Len(states)
        /\ Top(states').type = "Victory"
        /\ \A i \in 1..(Len(states) - 1) : states'[i] = states[i]]_vars

\* C3 amended: a winning guess pops one Game and then pushes one Victory,
\* the depth is unchanged, the Victory is on top, and every state below the
\* Game is unchanged except that the score of the Lobby holding the Game's
\* handler has grown by the report's score.
C3_WinPopsThenPushes ==
    [][WinStep =>
        /\ StackOps(effects') = << <<"pop", "Game">>, <<"push", "Victory">> >>
        /\ Len(states') = Len(states)
        /\ Top(states').type = "Victory"
        /\ \A i \in 1..(Len(states) - 1) :
              states'[i] =
                 IF i = Top(states).handler
                 THEN [states[i] EXCEPT !.state.score = @ + Top(states').report.score]
                 ELSE states[i]]_vars

C3_Witness ==
    /\ Running
    /\ tick.by = "Game" /\ tick.intent = "GUESS"
    /\ Top(states).type = "Victory"
    /\ Top(states).report.score > 0
    /\ StackOps(effects) = << <<"pop", "Game">>, <<"push", "Victory">> >>

(* --------------------------------- C4 ---------------------------------- *)

\* C4: every Guess handled by a Game fires exactly one outcome: the
\* too-high notice when guess > secret, the too-low notice when
\* guess < secret, the PlayerWin event when guess = secret.
C4_OneOutcome ==
    [][GuessStep =>
        LET guess == tick'.guess
            secret == Top(states).state.secret_number
        IN  /\ Outcomes(effects') =
                  IF guess > secret THEN << <<"notice", "GuessTooHigh">> >>
                  ELSE IF guess < secret THEN << <<"notice", "GuessTooLow">> >>
                  ELSE << <<"event", "PlayerWin">> >>
            /\ eventLogs' =
                  IF guess > secret THEN Append(eventLogs, "GuessTooHigh")
                  ELSE IF guess < secret THEN Append(eventLogs, "GuessTooLow")
                  ELSE eventLogs]_vars

C4_Witness ==
    /\ Running
    /\ tick.by = "Game" /\ tick.intent = "GUESS"
    /\ Top(states).type = "Game"
    /\ tick.guess < Top(states).state.secret_number
    /\ effects = << <<"notice", "GuessTooLow">> >>
    /\ eventLogs = << "GuessTooLow" >>

(* --------------------------------- C5 ---------------------------------- *)

\* C5: a Guess that differs from the secret increases guess_count by 1 and
\* records the intent in the Game's player; the stack is otherwise unchanged
\* (Game on top, same secret, settings, score, same Lobby score) and no
\* snapshot is written.
C5_MissFrame ==
    [][MissStep =>
        /\ Len(states') = Len(states)
        /\ \A i \in 1..(Len(states) - 1) : states'[i] = states[i]
        /\ Top(states').type = "Game"
        /\ Top(states').handler = Top(states).handler
        /\ Top(states').state =
              [Top(states).state EXCEPT
                  !.report.guess_count = @ + 1,
                  !.player = [guess |-> tick'.guess, action |-> "GUESS"]]
        /\ StackOps(effects') = <<>>
        /\ UNCHANGED << lobbyFile, gameFile >>]_vars

C5_Witness ==
    /\ Running
    /\ tick.by = "Game" /\ tick.intent = "GUESS"
    /\ Top(states).type = "Game"
    /\ tick.guess > Top(states).state.secret_number
    /\ Top(states).state.report.guess_count = 2
    /\ Top(states).state.report.score = 0

(* --------------------------------- C6 ---------------------------------- *)

\* q is the truncating quotient of the non-negative a by the positive n
IsQuotient(q, a, n) == n > 0 /\ q * n <= a /\ a < (q + 1) * n

\* C6: on a winning guess the report's score is the win-score baseline of
\* the difficulty integer-divided by the report's guess_count, and that
\* guess_count is the number of Guess intents handled in the round, the
\* winning one and those made before a save included.
C6_ScoreFormula ==
    (Running /\ tick.by = "Game" /\ Top(states).type = "Victory") =>
        LET v == Top(states)
        IN  /\ v.report.guess_count = guessesInRound
            /\ IsQuotient(v.report.score,
                          DIFFICULTY_WIN_SCORE[v.settings.difficulty],
                          guessesInRound)

\* Medium won on the 4th guess gives 25
C6_Witness ==
    /\ Running
    /\ tick.by = "Game" /\ Top(states).type = "Victory"
    /\ Top(states).settings.difficulty = "MEDIUM"
    /\ Top(states).report = [guess_count |-> 4, score |-> 25]

(* --------------------------------- C7 ---------------------------------- *)

\* C7: whichever difficulty is selected, the NewGameSetup's update invokes
\* its parent's handler exactly once with the selected settings, then pops
\* the NewGameSetup itself, and pushes nothing.
C7_SetupFiresThenPops ==
    [][(pc = "update" /\ Top(states).type = "NewGameSetup") =>
        LET h == Top(states).handler
        IN  /\ tick'.by = "NewGameSetup" /\ tick'.intent \in Difficulty
            /\ effects' = << <<"event", "NewGameSettingsValidated">>,
                             <<"pop", "NewGameSetup">> >>
            /\ Len(states') = Len(states) - 1
            /\ states' = [pop_state(states) EXCEPT
                            ![h].game_settings = [difficulty |-> tick'.intent],
                            ![h].create_game = TRUE,
                            ![h].enabled = FALSE]]_vars

C7_Witness ==
    /\ Running
    /\ tick.by = "NewGameSetup" /\ tick.intent = "HARD"
    /\ Top(states).type = "Lobby"
    /\ Top(states).game_settings.difficulty = "HARD"
    /\ Top(states).create_game

(* --------------------------------- C8 ---------------------------------- *)

QuitWritesAndPops ==
    (pc = "update" /\ Top(states).type = "Game" /\ tick'.intent = "QUIT") =>
        /\ effects' = << <<"save", "Game">>, <<"pop", "Game">> >>
        /\ states' = pop_state(states)
        /\ gameFile' # NoFile
        /\ lastQuit' = [Top(states).state EXCEPT !.player.action = "QUIT"]

LoadedIsLastQuit ==
    (Running /\ tick.by = "Lobby" /\ tick.intent = "LOAD_GAME"
        /\ lastQuit # NoQuit) =>
        /\ Top(states).type = "Game"
        /\ Top(states).state.secret_number = lastQuit.secret_number
        /\ Top(states).state.settings.difficulty = lastQuit.settings.difficulty
        /\ Top(states).state.report = lastQuit.report

\* C8: a Game handling Quit writes a snapshot of its state and pops itself,
\* and a Game loaded from that snapshot has the secret number, difficulty
\* and report the Game had when it quit.
C8_QuitLoadRoundTrip == [](LoadedIsLastQuit) /\ [][QuitWritesAndPops]_vars

C8_Witness ==
    /\ Running
    /\ tick.by = "Lobby" /\ tick.intent = "LOAD_GAME"
    /\ lastQuit # NoQuit
    /\ Top(states).type = "Game"
    /\ Top(states).state.report.guess_count = 2
    /\ Top(states).state.settings.difficulty = "HARD"
    /\ Top(states).state.secret_number = 100000

(* --------------------------------- C9 ---------------------------------- *)

\* C9: once MainMenu is drawn, LOAD_LOBBY is offered iff the lobby snapshot
\* exists; once an enabled Lobby is drawn, LOAD_GAME is offered iff the game
\* snapshot exists; no load is ever attempted on an absent snapshot.
C9_LoadOfferedIffSnapshot ==
    /\ (pc = "update" /\ Top(states).type = "MainMenu") =>
          ("LOAD_LOBBY" \in Offered(mainMenuActions) <=> lobbyFile # NoFile)
    /\ (pc = "update" /\ Top(states).type = "Lobby" /\ Top(states).enabled) =>
          ("LOAD_GAME" \in Offered(lobbyActions) <=> gameFile # NoFile)
    /\ pc # "error"

\* a Lobby drawn with a game snapshot but no lobby snapshot on disk
C9_Witness ==
    /\ pc = "update" /\ Top(states).type = "Lobby" /\ Top(states).enabled
    /\ gameFile # NoFile /\ lobbyFile = NoFile
    /\ "LOAD_GAME" \in Offered(lobbyActions)
    /\ "LOAD_LOBBY" \notin Offered(mainMenuActions)

(* --------------------------------- C10 --------------------------------- *)

\* C10: every Game on the stack that Game.initialize created has its secret
\* number in 0 .. DIFFICULTY_SECRET_NUMBER[difficulty], from its creation
\* until it is popped.
C10_SecretInRange ==
    \A i \in 1..Len(states) :
        (states[i].type = "Game" /\ states[i].origin = "new") =>
            /\ 0 <= states[i].state.secret_number
            /\ states[i].state.secret_number
                  <= DIFFICULTY_SECRET_NUMBER[states[i].state.settings.difficulty]

C10_Witness ==
    /\ Running
    /\ Top(states).type = "Game" /\ Top(states).origin = "new"
    /\ Top(states).state.settings.difficulty = "EASY"
    /\ Top(states).state.secret_number = 100
    /\ Top(states).state.report.guess_count = 3

(* --------------------------------- C11 --------------------------------- *)

RunEndsIffEmpty == (pc = "done") <=> (states = <<>>)

EmptiedByMainMenuQuit ==
    (states # <<>> /\ states' = <<>>) =>
        /\ Len(states) = 1 /\ states[1].type = "MainMenu"
        /\ tick'.by = "MainMenu" /\ tick'.intent = "QUIT"
        /\ pc' = "done"

\* C11: MainLoop.run has ended exactly when the stack is empty, and the
\* stack becomes empty only by the update of a MainMenu that is the sole
\* state of the stack and handles QUIT.
C11_EndsOnMainMenuQuit == [](RunEndsIffEmpty) /\ [][EmptiedByMainMenuQuit]_vars

\* the run ends after a Lobby was opened and left
C11_Witness ==
    /\ pc = "done" /\ states = <<>>
    /\ tick.by = "MainMenu" /\ tick.intent = "QUIT"
    /\ lobbyFile # NoFile
    /\ intents >= 3

(* --------------------------------- C12 --------------------------------- *)

RECURSIVE PopsOnNonEmpty(_, _)
\* every pop of ops finds at least one state, on a stack of the given depth
PopsOnNonEmpty(depth, ops) ==
    IF ops = <<>> THEN TRUE
    ELSE IF Head(ops)[1] = "pop"
         THEN depth >= 1 /\ PopsOnNonEmpty(depth - 1, Tail(ops))
         ELSE PopsOnNonEmpty(depth + 1, Tail(ops))

\* C12: no update calls pop_state on an empty stack: each pop of an update
\* finds at least one state and none raises IndexError.
C12_NoPopOnEmpty ==
    [][pc = "update" =>
        /\ PopsOnNonEmpty(Len(states), StackOps(effects'))
        /\ \A i \in 1..Len(effects') : effects'[i] # <<"raise", "IndexError">>]_vars

\* the pop that takes the last state off the stack
C12_Witness ==
    /\ states = <<>>
    /\ effects = << <<"pop", "MainMenu">> >>
    /\ intents = 1

(* --------------------------------- C13 --------------------------------- *)

\* C13 as stated: when the Controller is asked for a Game's intent, i.e.
\* after the first statement of Game.update, the Game's pending player
\* intent is none.
C13_Original ==
    (pc = "update" /\ Top(states).type = "Game") =>
        GameUpdateReset(Top(states)).state.player.action = None

(* --------------------------------- C14 --------------------------------- *)

\* the step taken is the update of a NewGameSetup (it always validates)
SetupStep == pc = "update" /\ Top(states).type = "NewGameSetup"

\* the step taken is the update of a Lobby whose create-game flag is staged
StagedLobbyStep ==
    pc = "update" /\ Top(states).type = "Lobby" /\ Top(states).create_game

SetupPushesNoGame ==
    SetupStep =>
        /\ \A i \in 1..Len(effects') : effects'[i][1] # "push"
        /\ \A i \in 1..Len(states') : states'[i].type # "Game"
        /\ pc' = "draw"
        /\ Top(states').type = "Lobby"
        /\ Top(states').create_game
        /\ Top(states').game_settings = [difficulty |-> tick'.intent]

StagedLobbyPushesGame ==
    StagedLobbyStep =>
        /\ intents' = intents
        /\ tick' = [by |-> "Lobby", intent |-> "none", guess |-> 0]
        /\ effects' = << <<"push", "Game">> >>
        /\ Len(states') = Len(states) + 1
        /\ SubSeq(states', 1, Len(states)) =
              [states EXCEPT ![Len(states)].create_game = FALSE,
                             ![Len(states)].enabled = TRUE]
        /\ Top(states').type = "Game"
        /\ Top(states').handler = Len(states)
        /\ Top(states').state.settings = Top(states).game_settings
        /\ Top(states').state.report = GameReportDefault
        /\ Top(states').state.player = PlayerDefault
        /\ Top(states').state.secret_number \in
              0..DIFFICULTY_SECRET_NUMBER[Top(states).game_settings.difficulty]

\* a staged Lobby on top was staged by the latest update, a NewGameSetup's
StagedInPreviousTick ==
    (Running /\ Top(states).type = "Lobby" /\ Top(states).create_game) =>
        tick.by = "NewGameSetup"

\* C14: the update of a NewGameSetup stages the Game in its Lobby and pushes
\* nothing; the next update, the Lobby's own, asks the Controller nothing,
\* pushes exactly one Game initialized with the validated settings, clears
\* the create-game flag and re-enables the Lobby.
C14_DeferredGameCreation ==
    /\ [](StagedInPreviousTick)
    /\ [][SetupPushesNoGame /\ StagedLobbyPushesGame]_vars

\* a Game with EASY settings was just pushed by its Lobby
C14_Witness ==
    /\ Running
    /\ tick.by = "Lobby" /\ tick.intent = "none"
    /\ effects = << <<"push", "Game">> >>
    /\ Top(states).type = "Game"
    /\ Top(states).state.settings.difficulty = "EASY"
    /\ states[Len(states) - 1].enabled
    /\ ~states[Len(states) - 1].create_game

(* --------------------------------- C15 --------------------------------- *)

PushCount(effs) == Len(SelectSeq(effs, LAMBDA e : e[1] = "push"))

PopCount(effs) == Len(SelectSeq(effs, LAMBDA e : e[1] = "pop"))

\* C15: draw leaves the stack alone, and an update changes it only by the
\* pushes and pops of the state on top when the tick began: at most one
\* pop, which comes before any push and so removes that state; the states
\* below stay in place; the depth changes by exactly those pushes and pops,
\* hence by nothing an event handler did.
C15_TopMutatesStackAlone ==
    [][/\ pc = "draw" => states' = states
       /\ pc = "update" =>
            LET ops == StackOps(effects')
                top == Top(states).type
            IN  /\ tick'.by = top
                /\ \A i \in 1..Len(ops) :
                      ops[i][1] = "pop" => i = 1 /\ ops[i] = <<"pop", top>>
                /\ Len(states') = Len(states) + PushCount(effects') - PopCount(effects')
                /\ \A i \in 1..(Len(states) - 1) :
                      i <= Len(states') /\ states'[i].type = states[i].type
                /\ PopCount(effects') = 0 =>
                      states'[Len(states)].type = top]_vars

\* a NewGameSetup fired its event and popped itself: the Lobby below is on top
C15_Witness ==
    /\ Running
    /\ tick.by = "NewGameSetup"
    /\ effects = << <<"event", "NewGameSettingsValidated">>,
                    <<"pop", "NewGameSetup">> >>
    /\ Types(states) = <<"MainMenu", "Lobby">>
    /\ intents >= 4

(* --------------------------------- C16 --------------------------------- *)

\* the step taken is the update of a Victory or a Credits
GoNextStep == pc = "update" /\ Top(states).type \in {"Victory", "Credits"}

\* C16 as stated: the update that delivers the intent sets the flag and
\* leaves the state on the stack, to be popped by the following update.
C16_Original ==
    [][GoNextStep =>
        /\ Len(states') = Len(states)
        /\ Top(states').go_next]_vars

\* C16: the update of a Victory or a Credits asks the Controller, whose
\* intent sets the go-next flag, and pops the state in that same update: it
\* pops only itself and pushes nothing, the state below becomes the top, and
\* no state with its flag set is ever left on the stack.
C16_GoNextPopsInSameUpdate ==
    /\ [](\A i \in 1..Len(states) :
            states[i].type \in {"Victory", "Credits"} => ~states[i].go_next)
    /\ [][GoNextStep =>
            /\ tick'.by = Top(states).type
            /\ effects' = << <<"pop", Top(states).type>> >>
            /\ states' = SubSeq(states, 1, Len(states) - 1)
            /\ pc' = "draw"]_vars

\* a Victory was popped by its one update and its Lobby is on top
C16_Witness ==
    /\ Running
    /\ tick.by = "Victory"
    /\ effects = << <<"pop", "Victory">> >>
    /\ Types(states) = <<"MainMenu", "Lobby">>

(* --------------------------------- C17 --------------------------------- *)

CountsNonNegative ==
    \A i \in 1..Len(states) :
        /\ states[i].type = "Game" => states[i].state.report.guess_count >= 0
        /\ states[i].type = "Victory" => states[i].report.guess_count >= 1

NoZeroDivision ==
    /\ pc = "error" => tick.by = "MainMenu"
    /\ \A i \in 1..Len(effects) : effects[i] # <<"raise", "ZeroDivisionError">>

\* C17: a Game computes its score with a guess_count of at least 1, for new
\* and for restored Games: compute_score never raises ZeroDivisionError, and
\* the winning update leaves a Victory whose report counts at least one
\* guess, one more than the Game counted before it.
C17_ScoreDivisorPositive ==
    /\ [](CountsNonNegative /\ NoZeroDivision)
    /\ [][WinStep =>
            /\ Top(states).state.report.guess_count >= 0
            /\ Top(states').type = "Victory"
            /\ Top(states').report.guess_count =
                  Top(states).state.report.guess_count + 1]_vars

\* a Game restored from a snapshot of three guesses is won by the next guess
C17_Witness ==
    /\ Running
    /\ tick.by = "Game" /\ tick.intent = "GUESS"
    /\ Top(states).type = "Victory"
    /\ Top(states).report.guess_count = 4
    /\ intents = 3

(* --------------------------------- C18 --------------------------------- *)

LobbyQuitWritesAndPops ==
    (pc = "update" /\ Top(states).type = "Lobby"
        /\ tick'.by = "Lobby" /\ tick'.intent = "QUIT") =>
        /\ effects' = << <<"save", "Lobby">>, <<"pop", "Lobby">> >>
        /\ states' = SubSeq(states, 1, Len(states) - 1)
        /\ Top(states').type = "MainMenu"
        /\ lobbyFile' # NoFile
        /\ lastLobbyQuit' = Top(states).state

LoadedIsLastLobbyQuit ==
    (Running /\ tick.by = "MainMenu" /\ tick.intent = "LOAD_LOBBY"
        /\ lastLobbyQuit # NoLobbyQuit) =>
        /\ Top(states).type = "Lobby"
        /\ Top(states).state.score = lastLobbyQuit.score

\* C18: a Lobby handling Quit writes the lobby snapshot and pops only itself,
\* which leaves the MainMenu on top; a Lobby loaded afterwards has the score
\* of the latest Lobby that quit.
C18_LobbyQuitLoadRoundTrip ==
    [](LoadedIsLastLobbyQuit) /\ [][LobbyQuitWritesAndPops]_vars

\* a Lobby that won an EASY round in one guess quit and was loaded again
C18_Witness ==
    /\ Running
    /\ tick.by = "MainMenu" /\ tick.intent = "LOAD_LOBBY"
    /\ lastLobbyQuit = [score |-> 10]
    /\ Top(states).type = "Lobby"
    /\ Top(states).state.score = 10

(* --------------------------------- C19 --------------------------------- *)

StackShapes ==
    { <<>>,
      <<"MainMenu">>,
      <<"MainMenu", "Credits">>,
      <<"MainMenu", "Lobby">>,
      <<"MainMenu", "Lobby", "NewGameSetup">>,
      <<"MainMenu", "Lobby", "Game">>,
      <<"MainMenu", "Lobby", "Victory">> }

\* C19: between ticks the stack has one of seven shapes, of depth at most 3
\* with the MainMenu at the bottom, and the handler a Game or a NewGameSetup
\* holds is the Lobby directly below it.
C19_StackShape ==
    /\ Types(states) \in StackShapes
    /\ Len(states) <= 3
    /\ \A i \in 1..Len(states) :
          /\ states[i].type = "MainMenu" <=> i = 1
          /\ states[i].type \in {"Game", "NewGameSetup"} =>
                /\ states[i].handler = i - 1
                /\ states[i - 1].type = "Lobby"
          /\ states[i].type = "Victory" => states[i - 1].type = "Lobby"

\* a Victory directly above the Lobby whose Game was won
C19_Witness ==
    /\ pc = "draw"
    /\ Types(states) = <<"MainMenu", "Lobby", "Victory">>
    /\ states[2].state.score > 0

(* --------------------------------- C20 --------------------------------- *)

DisabledIffStaged ==
    \A i \in 1..Len(states) :
        states[i].type = "Lobby" => (~states[i].enabled <=> states[i].create_game)

\* C20: between ticks every Lobby on the stack is disabled iff its
\* create-game flag is staged, and every update of a Lobby changes the
\* stack: it pushes the staged Game or handles an intent, all of which push
\* or pop.
C20_LobbyFlags ==
    /\ [](DisabledIffStaged)
    /\ [][(pc = "update" /\ Top(states).type = "Lobby" /\ pc' # "error") =>
            /\ StackOps(effects') # <<>>
            /\ Types(states') # Types(states)]_vars

\* a disabled Lobby with a staged Game is about to be updated, undrawn
C20_Witness ==
    /\ pc = "update"
    /\ Top(states).type = "Lobby"
    /\ ~Top(states).enabled
    /\ Top(states).create_game
    /\ tick.by = "NewGameSetup"

====
